---- MODULE Spec2Model ----
(***************************************************************************)
(* Model of the reservation importer (procesar_reservas.py) and of the     *)
(* grid cleaner (limpiar_grillas_pisos.py).                                *)
(*                                                                         *)
(* Python strings are sequences of one-character strings.  A cell value    *)
(* is None, a string or an integer.  A worksheet is a finite map from      *)
(* <<row, column>> to the non-None values it holds: openpyxl tells a cell  *)
(* that exists with value None from a cell that does not exist only        *)
(* through max_row/max_column, and every scan of the code ends at the      *)
(* first None (log sheet) or only matches non-None cells (floor sheets),   *)
(* so the two are the same cell here.                                      *)
(***************************************************************************)
EXTENDS Integers, Sequences, FiniteSets, TLC

VARIABLES
    room_number,        \* argument handed to get_piso_for_room (resolver runs)
    piso,               \* its result, "pending" before the call
    cmd,                \* command being run: "procesar" or "limpiar"
    pc,                 \* position inside the command
    csv_disk,           \* the CSV file named on the command line
    disk,               \* the spreadsheet file EXCEL_FILE on disk
    backups,            \* the BACKUP_* files on disk: name -> content
    clock,              \* datetime.now() in whole seconds
    wb,                 \* the workbook loaded in memory
    registros,          \* accepted records, in CSV order
    habitaciones_unicas,
    total_pax,
    total_habitaciones,
    total_map,
    reservas_agrupadas, \* insertion-ordered dict (floor, room) -> records
    grupo_idx,          \* position of the distribution loop in that dict
    actualizaciones_exitosas,
    backup_file,        \* name returned by create_backup
    ret,                \* return value of procesar_reservas / limpiar_grillas
    exit_status,        \* exit status of the process
    runs,               \* commands started so far
    historial           \* the commands that ended, with what they returned

vars == <<room_number, piso, cmd, pc, csv_disk, disk, backups, clock, wb,
          registros, habitaciones_unicas, total_pax, total_habitaciones,
          total_map, reservas_agrupadas, grupo_idx, actualizaciones_exitosas,
          backup_file, ret, exit_status, runs, historial>>

(***************************************************************************)
(* Bounds of the model.                                                    *)
(***************************************************************************)
MaxRoomLen == 4     \* longest room identifier handed to the resolver
MaxCsvRows == 3     \* longest CSV body of a single command
MaxCsvRowsRuns == 2 \* longest CSV body when commands follow one another
MaxRuns == 2        \* commands run one after the other
MaxCsvRowsBordes == 2 \* longest CSV body with short rows

(***************************************************************************)
(* Strings.                                                                *)
(***************************************************************************)
Whitespace == {" "}
Digits == <<"0", "1", "2", "3", "4", "5", "6", "7", "8", "9">>
DigitSet == {Digits[i] : i \in 1..10}

DigitVal(c) == CHOOSE d \in 0..9 : Digits[d + 1] = c

RECURSIVE LStrip(_)
LStrip(s) == IF s # <<>> /\ Head(s) \in Whitespace THEN LStrip(Tail(s)) ELSE s

RECURSIVE RStrip(_)
RStrip(s) ==
    IF s # <<>> /\ s[Len(s)] \in Whitespace
    THEN RStrip(SubSeq(s, 1, Len(s) - 1)) ELSE s

\* str.strip()
Strip(s) == RStrip(LStrip(s))

\* str(n) for an integer n >= 0
RECURSIVE NatToStr(_)
NatToStr(n) ==
    IF n < 10 THEN <<Digits[n + 1]>>
    ELSE Append(NatToStr(n \div 10), Digits[(n % 10) + 1])

IntToStr(n) == IF n < 0 THEN <<"-">> \o NatToStr(0 - n) ELSE NatToStr(n)

\* value of a sequence of decimal digits
RECURSIVE DigitsToNat(_)
DigitsToNat(s) ==
    IF s = <<>> THEN 0
    ELSE 10 * DigitsToNat(SubSeq(s, 1, Len(s) - 1)) + DigitVal(s[Len(s)])

\* the digits of an int() literal body: single underscores may separate digits
ValidIntBody(s) ==
    /\ s # <<>>
    /\ \A i \in 1..Len(s) : s[i] \in DigitSet \cup {"_"}
    /\ s[1] # "_" /\ s[Len(s)] # "_"
    /\ \A i \in 1..(Len(s) - 1) : ~(s[i] = "_" /\ s[i + 1] = "_")

RECURSIVE DropUnderscores(_)
DropUnderscores(s) ==
    IF s = <<>> THEN <<>>
    ELSE IF Head(s) = "_" THEN DropUnderscores(Tail(s))
    ELSE <<Head(s)>> \o DropUnderscores(Tail(s))

\* int(s): [ok |-> FALSE] stands for ValueError
ParseInt(s) ==
    LET t == Strip(s)
        signed == t # <<>> /\ Head(t) \in {"+", "-"}
        body == IF signed THEN Tail(t) ELSE t
    IN  IF ValidIntBody(body)
        THEN [ok |-> TRUE,
              n |-> IF signed /\ Head(t) = "-"
                    THEN 0 - DigitsToNat(DropUnderscores(body))
                    ELSE DigitsToNat(DropUnderscores(body))]
        ELSE [ok |-> FALSE, n |-> 0]

(***************************************************************************)
(* Configuration.                                                          *)
(***************************************************************************)
PisoKeys == <<"PISO_1", "PISO_2", "PISO_3">>

PISO_RANGES ==
    [k \in {"PISO_1", "PISO_2", "PISO_3"} |->
        CASE k = "PISO_1" -> <<101, 121>>
          [] k = "PISO_2" -> <<222, 242>>
          [] k = "PISO_3" -> <<343, 353>>]

PISO_SHEET_NAMES ==
    [k \in {"PISO_1", "PISO_2", "PISO_3", "INGRESOS"} |->
        CASE k = "PISO_1" -> "PISO 1"
          [] k = "PISO_2" -> "PISO 2"
          [] k = "PISO_3" -> "PISO 3"
          [] k = "INGRESOS" -> "Ingresos 23 D MAYO"]

NoPiso == "None"

\* get_piso_for_room with the exclusive upper end of a range
RECURSIVE ScanRangesExclusive(_, _)
ScanRangesExclusive(room_num, i) ==
    IF i > Len(PisoKeys) THEN NoPiso
    ELSE IF PISO_RANGES[PisoKeys[i]][1] <= room_num
            /\ room_num < PISO_RANGES[PisoKeys[i]][2]
         THEN PISO_SHEET_NAMES[PisoKeys[i]]
         ELSE ScanRangesExclusive(room_num, i + 1)

\* the loop of get_piso_for_room over PISO_RANGES.items(), from entry i on
RECURSIVE ScanRanges(_, _)
ScanRanges(room_num, i) ==
    IF i > Len(PisoKeys) THEN NoPiso
    ELSE IF PISO_RANGES[PisoKeys[i]][1] <= room_num
            /\ room_num <= PISO_RANGES[PisoKeys[i]][2]
         THEN PISO_SHEET_NAMES[PisoKeys[i]]
         ELSE ScanRanges(room_num, i + 1)

get_piso_for_room(r) ==
    LET p == ParseInt(Strip(r))
    IN  IF p.ok THEN ScanRanges(p.n, 1) ELSE NoPiso

(***************************************************************************)
(* Cell values and worksheets.                                             *)
(***************************************************************************)
None == [k |-> "none"]
Str(s) == [k |-> "str", v |-> s]
Num(n) == [k |-> "int", v |-> n]

\* str(value)
PyStr(x) ==
    CASE x.k = "str" -> x.v
      [] x.k = "int" -> IntToStr(x.v)
      [] OTHER -> <<"N", "o", "n", "e">>

EmptySheet == [x \in {} |-> None]

\* ws.cell(r, c).value
Cell(ws, r, c) == IF <<r, c>> \in DOMAIN ws THEN ws[<<r, c>>] ELSE None

\* cell.value = v
AssignCell(ws, r, c, v) ==
    IF v = None
    THEN [x \in DOMAIN ws \ {<<r, c>>} |-> ws[x]]
    ELSE [x \in DOMAIN ws \cup {<<r, c>>} |-> IF x = <<r, c>> THEN v ELSE ws[x]]

\* ws.cell(r, c, value=v): openpyxl assigns the value only when it is not
\* None, so ws.cell(r, c, value=None) leaves the cell as it is
SetCell(ws, r, c, v) == IF v = None THEN ws ELSE AssignCell(ws, r, c, v)

\* consecutive ws.cell(r, c + i - 1, value=vals[i]) calls, i = 1..Len(vals):
\* each call is SetCell on a column of its own, so together they assign the
\* values that are not None and leave the other cells as they are
WriteCells(ws, r, c, vals) ==
    LET escritas == {<<r, c + i - 1>> : i \in {j \in 1..Len(vals) : vals[j] # None}}
    IN  [x \in DOMAIN ws \cup escritas |->
            IF x \in escritas THEN vals[x[2] - c + 1] ELSE ws[x]]

SetMax(S) == CHOOSE m \in S : \A x \in S : x <= m

\* ws.max_row
max_row(ws) == IF DOMAIN ws = {} THEN 1 ELSE SetMax({x[1] : x \in DOMAIN ws})

(***************************************************************************)
(* CSV columns and records.                                                *)
(***************************************************************************)
MAPPING ==
    {"Nro. habitación", "Fecha de ingreso", "Fecha de egreso", "Plazas ocupadas",
     "Tipo documento", "Nro. doc.", "Apellido y nombre", "Edad", "Voucher",
     "Servicios", "Estado", "Paquete", "Sede"}

\* what csv.DictReader gives for a field that a row shorter than the header
\* lacks (restval): None, here one symbol that no text contains, so that
\* str() of it has no digit, no blank and no keyword
CsvNone == <<"None">>

\* the cell value a field of a registro is written as
CellValue(v) == IF v = CsvNone THEN None ELSE Str(v)

\* the registro built from one CSV row; IN_ is the key 'IN', NRO the key 'N.o'
Registro(row) ==
    [HAB |-> row["Nro. habitación"],
     IN_ |-> row["Fecha de ingreso"],
     OUT |-> row["Fecha de egreso"],
     PAX |-> row["Plazas ocupadas"],
     ID |-> row["Tipo documento"],
     NRO |-> row["Nro. doc."],
     NOMBRE |-> row["Apellido y nombre"],
     EDAD |-> row["Edad"],
     VOUCHER |-> row["Voucher"],
     MAP |-> row["Servicios"],
     ESTADO |-> row["Estado"],
     BENEFICIO |-> row["Paquete"],
     SEDE |-> row["Sede"],
     PISO |-> get_piso_for_room(row["Nro. habitación"])]

\* every row is kept
RECURSIVE LeerFilasSinFiltro(_)
LeerFilasSinFiltro(rows) ==
    IF rows = <<>> THEN <<>>
    ELSE <<Registro(Head(rows))>> \o LeerFilasSinFiltro(Tail(rows))

\* the loop of read_csv_data over the rows: rows without a floor are skipped
RECURSIVE LeerFilas(_)
LeerFilas(rows) ==
    IF rows = <<>> THEN <<>>
    ELSE LET registro == Registro(Head(rows))
         IN  IF registro.PISO # NoPiso
             THEN <<registro>> \o LeerFilas(Tail(rows))
             ELSE LeerFilas(Tail(rows))

\* read_csv_data: the pair (registros, habitaciones_unicas)
read_csv_data(file) ==
    IF ~file.exists THEN [registros |-> <<>>, habitaciones |-> {}]
    ELSE IF ~(MAPPING \subseteq file.fieldnames)
         THEN [registros |-> <<>>, habitaciones |-> {}]
         ELSE LET regs == LeerFilas(file.rows)
              IN  [registros |-> regs,
                   habitaciones |-> {regs[i].HAB : i \in 1..Len(regs)}]

\* position of key in the insertion-ordered dict d, 0 when absent
KeyIndex(d, key) ==
    IF \E i \in 1..Len(d) : d[i].key = key
    THEN CHOOSE i \in 1..Len(d) : d[i].key = key
    ELSE 0

\* the group list grown at its front
AppendToGroupAtFront(d, key, registro) ==
    IF KeyIndex(d, key) = 0
    THEN Append(d, [key |-> key, pax_list |-> <<registro>>])
    ELSE [d EXCEPT ![KeyIndex(d, key)].pax_list = <<registro>> \o @]

\* reservas_agrupadas[key].append(registro) on a defaultdict(list)
AppendToGroup(d, key, registro) ==
    IF KeyIndex(d, key) = 0
    THEN Append(d, [key |-> key, pax_list |-> <<registro>>])
    ELSE [d EXCEPT ![KeyIndex(d, key)].pax_list = Append(@, registro)]

RECURSIVE AgruparDesde(_, _)
AgruparDesde(d, regs) ==
    IF regs = <<>> THEN d
    ELSE AgruparDesde(AppendToGroup(d, <<Head(regs).PISO, Head(regs).HAB>>, Head(regs)),
                      Tail(regs))

agrupar_por_habitacion(regs) == AgruparDesde(<<>>, regs)

(***************************************************************************)
(* Meal-plan count.                                                        *)
(***************************************************************************)
LowerCase == <<"a", "b", "c", "d", "e", "f", "g", "h", "i", "j", "k", "l", "m", "n", "o", "p", "q", "r", "s", "t", "u", "v", "w", "x", "y", "z", "ó">>
UpperCase == <<"A", "B", "C", "D", "E", "F", "G", "H", "I", "J", "K", "L", "M", "N", "O", "P", "Q", "R", "S", "T", "U", "V", "W", "X", "Y", "Z", "Ó">>

\* str.upper(), one character
UpperChar(c) ==
    IF \E i \in 1..Len(LowerCase) : LowerCase[i] = c
    THEN UpperCase[CHOOSE i \in 1..Len(LowerCase) : LowerCase[i] = c]
    ELSE c

Upper(s) == [i \in 1..Len(s) |-> UpperChar(s[i])]

\* keyword in s
Contains(s, keyword) ==
    \E i \in 0..(Len(s) - Len(keyword)) :
        \A j \in 1..Len(keyword) : s[i + j] = keyword[j]

MAP_KEYWORDS == {<<"M", "E", "D", "I", "A", " ", "P", "E", "N", "S", "I", "O", "N">>,
                 <<"M", "E", "D", "I", "A", " ", "P", "E", "N", "S", "I", "Ó", "N">>,
                 <<"A", "L", "L", " ", "I", "N", "C", "L", "U", "S", "I", "V", "E">>}

TieneMediaPension(registro) ==
    LET servicios == Upper(registro.MAP)
    IN  \E keyword \in MAP_KEYWORDS : Contains(servicios, keyword)

\* one count for every keyword of a record
RECURSIVE ContarMapPorKeyword(_)
ContarMapPorKeyword(regs) ==
    IF regs = <<>> THEN 0
    ELSE Cardinality({keyword \in MAP_KEYWORDS :
                        Contains(Upper(Head(regs).MAP), keyword)})
         + ContarMapPorKeyword(Tail(regs))

RECURSIVE ContarMap(_)
ContarMap(regs) ==
    IF regs = <<>> THEN 0
    ELSE (IF TieneMediaPension(Head(regs)) THEN 1 ELSE 0) + ContarMap(Tail(regs))

(***************************************************************************)
(* Log sheet: append.                                                      *)
(***************************************************************************)
\* the scan for the first row whose column A is None, rows row..last
RECURSIVE PrimeraFilaVacia(_, _, _)
PrimeraFilaVacia(ws, row, last) ==
    IF row > last THEN 2
    ELSE IF Cell(ws, row, 1) = None THEN row
    ELSE PrimeraFilaVacia(ws, row + 1, last)

\* columns A..M of the log sheet
FilaIngresos(registro) ==
    <<CellValue(registro.HAB), CellValue(registro.IN_), CellValue(registro.OUT), CellValue(registro.PAX),
      CellValue(registro.ID), CellValue(registro.NRO), CellValue(registro.NOMBRE), CellValue(registro.EDAD),
      CellValue(registro.VOUCHER), CellValue(registro.MAP), CellValue(registro.ESTADO),
      CellValue(registro.BENEFICIO), CellValue(registro.SEDE)>>

\* the write loop over registros, one row each from row_idx on
RECURSIVE EscribirIngresos(_, _, _)
EscribirIngresos(ws, row_idx, regs) ==
    IF regs = <<>> THEN ws
    ELSE EscribirIngresos(WriteCells(ws, row_idx, 1, FilaIngresos(Head(regs))),
                          row_idx + 1, Tail(regs))

\* the append below the last row of the sheet
ImportarIngresosAlFinal(ws, regs) == EscribirIngresos(ws, max_row(ws) + 1, regs)

ImportarIngresos(ws, regs) ==
    EscribirIngresos(ws, PrimeraFilaVacia(ws, 2, max_row(ws) + 1), regs)

(***************************************************************************)
(* Floor sheets: distribution.                                             *)
(***************************************************************************)
SetMin(S) == CHOOSE m \in S : \A x \in S : m <= x

\* the scan of column B over iter_rows, rows 1..max_row: the first row whose
\* stripped str() equals the room, 0 when no row matches
BuscarHabitacion(ws, room) ==
    LET hits == {row \in 1..max_row(ws) : Strip(PyStr(Cell(ws, row, 2))) = room}
    IN  IF hits = {} THEN 0 ELSE SetMin(hits)

AnchorRow(ws, room) == BuscarHabitacion(ws, room)

\* for col_to_clear in range(3, 13): ws.cell(current_row, col_to_clear, value=None)
LimpiarFila(ws, current_row) ==
    WriteCells(ws, current_row, 3, [col_to_clear \in 1..10 |-> None])

\* columns C..L of a floor sheet
FilaPiso(data) ==
    <<CellValue(data.IN_), CellValue(data.OUT), CellValue(data.PAX), CellValue(data.NRO), CellValue(data.ID),
      CellValue(data.NOMBRE), CellValue(data.EDAD), CellValue(data.VOUCHER), CellValue(data.MAP),
      CellValue(data.ESTADO)>>

\* the loop over pax_list from current_row on
RECURSIVE EscribirPax(_, _, _)
EscribirPax(ws, current_row, pax_list) ==
    IF pax_list = <<>> THEN ws
    ELSE EscribirPax(WriteCells(LimpiarFila(ws, current_row), current_row, 3,
                                FilaPiso(Head(pax_list))),
                     current_row + 1, Tail(pax_list))

\* a room that is not found is written below the last row
DistribuirHabitacionAlFinal(ws, room, pax_list) ==
    IF AnchorRow(ws, room) = 0 THEN EscribirPax(ws, max_row(ws) + 1, pax_list)
    ELSE EscribirPax(ws, AnchorRow(ws, room), pax_list)

\* one iteration of the distribution loop on the sheet of the room
DistribuirHabitacion(ws, room, pax_list) ==
    IF AnchorRow(ws, room) = 0 THEN ws
    ELSE EscribirPax(ws, AnchorRow(ws, room), pax_list)

(***************************************************************************)
(* Summary block on PISO 1.                                                *)
(***************************************************************************)
fila_resumen == 278

\* the totals added to the totals already in the block
EscribirResumenAcumulado(ws, pax, habitaciones, mp) ==
    LET previo(r) == IF Cell(ws, r, 9).k = "int" THEN Cell(ws, r, 9).v ELSE 0
        w1 == SetCell(ws, fila_resumen + 2, 9, Num(previo(fila_resumen + 2) + pax))
        w2 == SetCell(w1, fila_resumen + 3, 9,
                      Num(previo(fila_resumen + 3) + habitaciones))
    IN  SetCell(w2, fila_resumen + 4, 9, Num(previo(fila_resumen + 4) + mp))

EscribirResumen(ws, pax, habitaciones, mp) ==
    LET w1 == SetCell(ws, fila_resumen, 8, Str(<<"R", "E", "S", "U", "M", "E", "N", " ", "G", "E", "N", "E", "R", "A", "L">>))
        w2 == SetCell(w1, fila_resumen + 2, 8, Str(<<"T", "o", "t", "a", "l", " ", "P", "a", "s", "a", "j", "e", "r", "o", "s", ":">>))
        w3 == SetCell(w2, fila_resumen + 2, 9, Num(pax))
        w4 == SetCell(w3, fila_resumen + 3, 8, Str(<<"T", "o", "t", "a", "l", " ", "H", "a", "b", "i", "t", "a", "c", "i", "o", "n", "e", "s", ":">>))
        w5 == SetCell(w4, fila_resumen + 3, 9, Num(habitaciones))
        w6 == SetCell(w5, fila_resumen + 4, 8, Str(<<"T", "o", "t", "a", "l", " ", "M", "e", "d", "i", "a", " ", "P", "e", "n", "s", "i", "ó", "n", ":">>))
    IN  SetCell(w6, fila_resumen + 4, 9, Num(mp))

(***************************************************************************)
(* Files.                                                                  *)
(***************************************************************************)
NoSheets == [s \in {} |-> EmptySheet]
NoFile == [exists |-> FALSE, sheets |-> NoSheets]
File(sheets) == [exists |-> TRUE, sheets |-> sheets]

NoBackups == [n \in {} |-> NoSheets]

\* a copy that writes no file
CopyToNowhere(files, name, content) == files

\* shutil.copy2(EXCEL_FILE, name): the file name gets the content, replacing
\* a file of that name
CopyTo(files, name, content) ==
    [n \in DOMAIN files \cup {name} |-> IF n = name THEN content ELSE files[n]]

BackupName(prefix, timestamp) == [prefix |-> prefix, ts |-> timestamp]

(***************************************************************************)
(* Grid cleaner.                                                           *)
(***************************************************************************)
MAX_ROW_CLEAN == 500
FILA_INICIO_DATOS == 2
COLUMNAS_DE_DATOS == 3..12
COLUMNAS_INGRESOS == 1..14

\* the window with the header row in it
LimpiarVentanaConEncabezado(ws, columnas) ==
    [x \in {y \in DOMAIN ws : ~(y[1] \in 1..MAX_ROW_CLEAN /\ y[2] \in columnas)}
        |-> ws[x]]

\* the two nested loops: every non-None cell of the window becomes None
LimpiarVentana(ws, columnas) ==
    [x \in {y \in DOMAIN ws :
                ~(y[1] \in FILA_INICIO_DATOS..MAX_ROW_CLEAN /\ y[2] \in columnas)}
        |-> ws[x]]

LimpiarPisos(book) ==
    [s \in DOMAIN book |->
        IF s \in {PISO_SHEET_NAMES[PisoKeys[i]] : i \in 1..Len(PisoKeys)}
        THEN LimpiarVentana(book[s], COLUMNAS_DE_DATOS)
        ELSE book[s]]

LimpiarIngresos(book) ==
    [s \in DOMAIN book |->
        IF s = PISO_SHEET_NAMES["INGRESOS"]
        THEN LimpiarVentana(book[s], COLUMNAS_INGRESOS)
        ELSE book[s]]

\* glob.glob("BACKUP_*.xlsx"): both backup prefixes start with BACKUP_ and
\* every backup name ends with EXCEL_FILE, which ends with .xlsx
MatchesPatronBackups(name) == name.prefix \in {"BACKUP_", "BACKUP_LIMPIEZA_"}

borrar_backups(files) ==
    [n \in {m \in DOMAIN files : ~MatchesPatronBackups(m)} |-> files[n]]

(***************************************************************************)
(* Inputs: CSV files and spreadsheets a run can meet.                      *)
(***************************************************************************)
H105 == <<"1", "0", "5">>
H106 == <<"1", "0", "6">>
H105sp == <<"1", "0", "5", " ">>
H230 == <<"2", "3", "0">>
H999 == <<"9", "9", "9">>
HAlfa == <<"1", "A">>

MP_Mixta == <<"M", "e", "d", "i", "a", " ", "P", "e", "n", "s", "i", "o", "n">>
MP_Doble == <<"a", "l", "l", " ", "i", "n", "c", "l", "u", "s", "i", "v", "e", ",", " ", "m", "e", "d", "i", "a", " ", "p", "e", "n", "s", "i", "ó", "n">>
MP_No == <<"D", "e", "s", "a", "y", "u", "n", "o">>

RowKinds ==
    {[hab |-> H105, servicios |-> MP_Mixta],
     [hab |-> H105, servicios |-> MP_No],
     [hab |-> H106, servicios |-> MP_Doble],
     [hab |-> H230, servicios |-> MP_No],
     [hab |-> H105sp, servicios |-> MP_No],
     [hab |-> H999, servicios |-> MP_Mixta],
     [hab |-> HAlfa, servicios |-> MP_No]}

\* the i-th row of a CSV body: every field but room and services is tagged
\* with the row number; the second guest has no voucher
CsvRow(i, kind, fieldnames) ==
    [c \in fieldnames |->
        CASE c = "Nro. habitación" -> kind.hab
          [] c = "Servicios" -> kind.servicios
          [] c = "Fecha de ingreso" -> <<"i", Digits[i + 1]>>
          [] c = "Fecha de egreso" -> <<"o", Digits[i + 1]>>
          [] c = "Plazas ocupadas" -> <<"2">>
          [] c = "Tipo documento" -> <<"D", "N", "I">>
          [] c = "Nro. doc." -> <<"9", Digits[i + 1]>>
          [] c = "Apellido y nombre" -> <<"n", Digits[i + 1]>>
          [] c = "Edad" -> <<"4", Digits[i + 1]>>
          [] c = "Voucher" -> IF i = 2 THEN <<>> ELSE <<"v", Digits[i + 1]>>
          [] c = "Estado" -> <<"O", "K">>
          [] c = "Paquete" -> <<"p", Digits[i + 1]>>
          [] OTHER -> <<"s", Digits[i + 1]>>]

CsvFile(fieldnames, kinds) ==
    [exists |-> TRUE, fieldnames |-> fieldnames,
     rows |-> [i \in 1..Len(kinds) |-> CsvRow(i, kinds[i], fieldnames)]]

CsvMissing == [exists |-> FALSE, fieldnames |-> {}, rows |-> <<>>]

CsvFiles ==
    {CsvMissing, CsvFile(MAPPING \ {"Sede"}, <<[hab |-> H105, servicios |-> MP_No]>>)}
    \cup {CsvFile(MAPPING, kinds) :
            kinds \in UNION {[1..n -> RowKinds] : n \in 0..MaxCsvRows}}

\* a sheet from <<row, column, value>> triples
SheetOf(T) ==
    [x \in {<<c[1], c[2]>> : c \in T} |->
        (CHOOSE c \in T : c[1] = x[1] /\ c[2] = x[2])[3]]

Viejo == Str(<<"v", "i", "e", "j", "o">>)
Nota == Str(<<"n", "o", "t", "a">>)

EncabezadoPiso ==
    {<<1, 2, Str(<<"H", "A", "B">>)>>, <<1, 3, Str(<<"I", "N">>)>>,
     <<1, 8, Str(<<"N", "O", "M", "B", "R", "E">>)>>,
     <<1, 13, Str(<<"O", "B", "S">>)>>}

\* PISO 1: 105 (a number cell) above 106, old guests in both rows, a note
\* beside the grid
Piso1Contiguo ==
    SheetOf(EncabezadoPiso \cup
            {<<2, 2, Num(105)>>, <<2, 3, Viejo>>, <<2, 12, Viejo>>, <<2, 13, Nota>>,
             <<3, 2, Str(H106)>>, <<3, 8, Viejo>>, <<4, 2, Num(107)>>})

\* PISO 1: 105 twice, the upper one a padded text cell, a free row between
Piso1Repetido ==
    SheetOf(EncabezadoPiso \cup
            {<<2, 2, Str(<<" ", "1", "0", "5", " ">>)>>, <<3, 10, Viejo>>,
             <<4, 2, Num(105)>>, <<4, 3, Viejo>>})

\* PISO 1 without room 105
Piso1Sin105 ==
    SheetOf(EncabezadoPiso \cup {<<2, 2, Num(106)>>, <<2, 3, Viejo>>})

Piso2 == SheetOf(EncabezadoPiso \cup {<<2, 2, Num(230)>>, <<2, 5, Viejo>>})
Piso3 == SheetOf(EncabezadoPiso \cup {<<2, 2, Num(343)>>})

EncabezadoIngresos ==
    {<<1, 1, Str(<<"H", "A", "B">>)>>, <<1, 2, Str(<<"I", "N">>)>>,
     <<1, 14, Str(<<"O", "B", "S">>)>>}

IngresosVacio == SheetOf(EncabezadoIngresos)

\* two rows of an earlier import
IngresosLleno ==
    SheetOf(EncabezadoIngresos \cup
            {<<2, 1, Str(H230)>>, <<2, 7, Viejo>>, <<3, 1, Str(H105)>>, <<3, 7, Viejo>>})

\* a gap: row 3 has no room, row 4 is populated
IngresosConHueco ==
    SheetOf(EncabezadoIngresos \cup
            {<<2, 1, Str(H230)>>, <<2, 7, Viejo>>, <<3, 7, Viejo>>,
             <<4, 1, Str(H105)>>, <<4, 7, Viejo>>, <<4, 14, Nota>>})

Libro(p1, ing) ==
    [s \in {"PISO 1", "PISO 2", "PISO 3", "Ingresos 23 D MAYO"} |->
        CASE s = "PISO 1" -> p1
          [] s = "PISO 2" -> Piso2
          [] s = "PISO 3" -> Piso3
          [] OTHER -> ing]

SinHoja(book, s) == [x \in DOMAIN book \ {s} |-> book[x]]

LibroBase == Libro(Piso1Contiguo, IngresosVacio)

Libros ==
    {LibroBase,
     Libro(Piso1Contiguo, IngresosLleno),
     Libro(Piso1Contiguo, IngresosConHueco),
     Libro(Piso1Repetido, IngresosVacio),
     Libro(Piso1Sin105, IngresosVacio),
     SinHoja(LibroBase, "Ingresos 23 D MAYO"),
     SinHoja(LibroBase, "PISO 1"),
     SinHoja(LibroBase, "PISO 2")}

ExcelFiles == {NoFile} \cup {File(book) : book \in Libros}

\* the inputs of the runs that follow one another
RowKindsRuns ==
    {[hab |-> H105, servicios |-> MP_Mixta],
     [hab |-> H106, servicios |-> MP_No],
     [hab |-> H999, servicios |-> MP_No]}

CsvFilesRuns ==
    {CsvMissing}
    \cup {CsvFile(MAPPING, kinds) :
            kinds \in UNION {[1..n -> RowKindsRuns] : n \in 0..MaxCsvRowsRuns}}

ExcelFilesRuns ==
    {NoFile, File(LibroBase), File(Libro(Piso1Contiguo, IngresosConHueco)),
     File(Libro(Piso1Repetido, IngresosLleno))}

\* the cut of a short row: the fields from Edad on are missing from it
CamposAusentes == {"Edad", "Voucher", "Servicios", "Estado", "Paquete", "Sede"}

\* the i-th row of a CSV body when the line ends after the name
CsvRowCorta(i, kind, fieldnames) ==
    [c \in fieldnames |->
        IF c \in CamposAusentes THEN CsvNone ELSE CsvRow(i, kind, fieldnames)[c]]

RowKindsBordes ==
    {[hab |-> H105, servicios |-> MP_Mixta, corta |-> FALSE],
     [hab |-> H105, servicios |-> MP_No, corta |-> TRUE],
     [hab |-> H106, servicios |-> MP_No, corta |-> TRUE]}

CsvFileBordes(kinds) ==
    [exists |-> TRUE, fieldnames |-> MAPPING,
     rows |-> [i \in 1..Len(kinds) |->
                IF kinds[i].corta THEN CsvRowCorta(i, kinds[i], MAPPING)
                ELSE CsvRow(i, kinds[i], MAPPING)]]

CsvFilesBordes ==
    {CsvFileBordes(kinds) :
        kinds \in UNION {[1..n -> RowKindsBordes] : n \in 0..MaxCsvRowsBordes}}

\* PISO 1 without a header row: room 105 is on row 1
Piso1SinEncabezado ==
    SheetOf({<<1, 2, Num(105)>>, <<1, 3, Viejo>>, <<1, 13, Nota>>,
             <<2, 2, Num(106)>>, <<2, 12, Viejo>>})

\* PISO 1 with a summary block of an earlier import and a row below row 500
Piso1ConResumen ==
    SheetOf(EncabezadoPiso \cup
            {<<2, 2, Num(105)>>, <<2, 3, Viejo>>, <<2, 13, Nota>>,
             <<278, 8, Viejo>>, <<280, 9, Num(7)>>, <<281, 9, Nota>>,
             <<282, 8, Viejo>>, <<501, 2, Num(120)>>, <<501, 3, Viejo>>})

\* a log sheet with a column beside the grid and a row below row 500
IngresosAncho ==
    SheetOf(EncabezadoIngresos \cup
            {<<2, 1, Str(H230)>>, <<2, 14, Viejo>>, <<2, 15, Nota>>,
             <<501, 1, Viejo>>, <<501, 14, Viejo>>})

\* a workbook with a sheet neither command names
LibroLargo ==
    [s \in {"PISO 1", "PISO 2", "PISO 3", "Ingresos 23 D MAYO", "NOTAS"} |->
        CASE s = "PISO 1" -> Piso1ConResumen
          [] s = "PISO 2" -> Piso2
          [] s = "PISO 3" -> Piso3
          [] s = "NOTAS" -> SheetOf({<<1, 1, Nota>>, <<3, 4, Nota>>})
          [] OTHER -> IngresosAncho]

ExcelFilesBordes ==
    {NoFile, File(LibroBase), File(Libro(Piso1SinEncabezado, IngresosVacio)),
     File(LibroLargo)}

\* the room identifiers handed to the resolver: every string over RoomChars
\* of at most MaxRoomLen characters
RoomChars == {"0", "1", "2", "3", "4", "5", " ", "-", "+", "A"}
RoomStrings == UNION {[1..n -> RoomChars] : n \in 0..MaxRoomLen}

(***************************************************************************)
(* The commands, step by step.                                             *)
(***************************************************************************)
NoGroups == <<>>

Locals0 ==
    /\ wb = NoSheets
    /\ registros = <<>>
    /\ habitaciones_unicas = {}
    /\ total_pax = 0
    /\ total_habitaciones = 0
    /\ total_map = 0
    /\ reservas_agrupadas = NoGroups
    /\ grupo_idx = 0
    /\ actualizaciones_exitosas = 0
    /\ backup_file = BackupName("", 0)
    /\ ret = "none"
    /\ exit_status = -1

\* one command against one spreadsheet; the cleaner reads no CSV
Init ==
    /\ room_number = <<>>
    /\ piso = "unused"
    /\ \/ cmd = "procesar" /\ csv_disk \in CsvFiles
       \/ cmd = "limpiar" /\ csv_disk = CsvMissing
    /\ pc = "start"
    /\ disk \in ExcelFiles
    /\ backups = NoBackups
    /\ clock = 1
    /\ runs = 1
    /\ historial = <<>>
    /\ Locals0

\* commands run one after the other against the same files
InitRuns ==
    /\ room_number = <<>>
    /\ piso = "unused"
    /\ cmd \in {"procesar", "limpiar"}
    /\ csv_disk \in CsvFilesRuns
    /\ pc = "start"
    /\ disk \in ExcelFilesRuns
    /\ backups = NoBackups
    /\ clock = 1
    /\ runs = 1
    /\ historial = <<>>
    /\ Locals0

\* one command against a spreadsheet or a CSV out of the ordinary
InitBordes ==
    /\ room_number = <<>>
    /\ piso = "unused"
    /\ \/ cmd = "procesar" /\ csv_disk \in CsvFilesBordes
       \/ cmd = "limpiar" /\ csv_disk = CsvMissing
    /\ pc = "start"
    /\ disk \in ExcelFilesBordes
    /\ backups = NoBackups
    /\ clock = 1
    /\ runs = 1
    /\ historial = <<>>
    /\ Locals0

\* one call of the resolver
InitPiso ==
    /\ room_number \in RoomStrings
    /\ piso = "pending"
    /\ cmd = "resolver"
    /\ pc = "call"
    /\ csv_disk = CsvMissing
    /\ disk = NoFile
    /\ backups = NoBackups
    /\ clock = 1
    /\ runs = 1
    /\ historial = <<>>
    /\ Locals0

UnchangedFiles == UNCHANGED <<csv_disk, disk, backups, clock, runs, cmd, historial>>
UnchangedResolver == UNCHANGED <<room_number, piso>>
UnchangedCsvLocals ==
    UNCHANGED <<registros, habitaciones_unicas, total_pax, total_habitaciones, total_map>>

\* create_backup of procesar_reservas.py, and the early return on its failure
P_CreateBackup ==
    /\ cmd = "procesar" /\ pc = "start"
    /\ IF ~disk.exists
       THEN /\ ret' = "False"
            /\ pc' = "return"
            /\ UNCHANGED <<backups, backup_file>>
       ELSE /\ backup_file' = BackupName("BACKUP_", clock)
            /\ backups' = CopyTo(backups, BackupName("BACKUP_", clock), disk.sheets)
            /\ pc' = "read_csv"
            /\ UNCHANGED ret
    /\ UNCHANGED <<csv_disk, disk, clock, runs, cmd, historial, wb, reservas_agrupadas, grupo_idx,
                   actualizaciones_exitosas, exit_status>>
    /\ UnchangedCsvLocals /\ UnchangedResolver

\* read_csv_data and the metrics computed from its result
P_ReadCsv ==
    /\ cmd = "procesar" /\ pc = "read_csv"
    /\ LET r == read_csv_data(csv_disk)
       IN  /\ registros' = r.registros
           /\ habitaciones_unicas' = r.habitaciones
           /\ IF r.registros = <<>>
              THEN /\ ret' = "False"
                   /\ pc' = "return"
                   /\ UNCHANGED <<total_pax, total_habitaciones, total_map>>
              ELSE /\ total_pax' = Len(r.registros)
                   /\ total_habitaciones' = Cardinality(r.habitaciones)
                   /\ total_map' = ContarMap(r.registros)
                   /\ pc' = "load"
                   /\ UNCHANGED ret
    /\ UnchangedFiles /\ UnchangedResolver
    /\ UNCHANGED <<wb, reservas_agrupadas, grupo_idx, actualizaciones_exitosas,
                   backup_file, exit_status>>

\* load_workbook, the lookup of the log sheet (KeyError when it is missing)
\* and the grouping
P_LoadWorkbook ==
    /\ cmd = "procesar" /\ pc = "load"
    /\ wb' = disk.sheets
    /\ IF PISO_SHEET_NAMES["INGRESOS"] \in DOMAIN disk.sheets
       THEN /\ reservas_agrupadas' = agrupar_por_habitacion(registros)
            /\ pc' = "ingresos"
            /\ UNCHANGED <<ret, exit_status>>
       ELSE /\ ret' = "KeyError"
            /\ pc' = "return"
            /\ UNCHANGED <<reservas_agrupadas, exit_status>>
    /\ UnchangedFiles /\ UnchangedResolver /\ UnchangedCsvLocals
    /\ UNCHANGED <<grupo_idx, actualizaciones_exitosas, backup_file>>

\* the append to the log sheet
P_ImportarIngresos ==
    /\ cmd = "procesar" /\ pc = "ingresos"
    /\ wb' = [wb EXCEPT ![PISO_SHEET_NAMES["INGRESOS"]] = ImportarIngresos(@, registros)]
    /\ grupo_idx' = 1
    /\ actualizaciones_exitosas' = 0
    /\ pc' = "distribuir"
    /\ UnchangedFiles /\ UnchangedResolver /\ UnchangedCsvLocals
    /\ UNCHANGED <<reservas_agrupadas, backup_file, ret, exit_status>>

\* one iteration of the loop over reservas_agrupadas.items()
P_Distribuir ==
    /\ cmd = "procesar" /\ pc = "distribuir"
    /\ grupo_idx <= Len(reservas_agrupadas)
    /\ LET sheet_name == reservas_agrupadas[grupo_idx].key[1]
           room == reservas_agrupadas[grupo_idx].key[2]
           pax_list == reservas_agrupadas[grupo_idx].pax_list
       IN  IF sheet_name \in DOMAIN wb
           THEN /\ wb' = [wb EXCEPT ![sheet_name] = DistribuirHabitacion(@, room, pax_list)]
                /\ actualizaciones_exitosas' =
                        IF AnchorRow(wb[sheet_name], room) = 0
                        THEN actualizaciones_exitosas
                        ELSE actualizaciones_exitosas + Len(pax_list)
           ELSE UNCHANGED <<wb, actualizaciones_exitosas>>
    /\ grupo_idx' = grupo_idx + 1
    /\ UnchangedFiles /\ UnchangedResolver /\ UnchangedCsvLocals
    /\ UNCHANGED <<pc, reservas_agrupadas, backup_file, ret, exit_status>>

\* the summary block on PISO 1 (KeyError when the sheet is missing)
P_EscribirResumen ==
    /\ cmd = "procesar" /\ pc = "distribuir"
    /\ grupo_idx > Len(reservas_agrupadas)
    /\ IF "PISO 1" \in DOMAIN wb
       THEN /\ wb' = [wb EXCEPT !["PISO 1"] =
                        EscribirResumen(@, total_pax, total_habitaciones, total_map)]
            /\ pc' = "save"
            /\ UNCHANGED <<ret, exit_status>>
       ELSE /\ ret' = "KeyError"
            /\ pc' = "return"
            /\ UNCHANGED <<wb, exit_status>>
    /\ UnchangedFiles /\ UnchangedResolver /\ UnchangedCsvLocals
    /\ UNCHANGED <<reservas_agrupadas, grupo_idx, actualizaciones_exitosas, backup_file>>

\* wb.save(EXCEL_FILE): it succeeds, or raises and the function returns False
P_Guardar ==
    /\ cmd = "procesar" /\ pc = "save"
    /\ \E saved \in BOOLEAN :
        IF saved
        THEN disk' = File(wb) /\ ret' = "True"
        ELSE UNCHANGED disk /\ ret' = "False"
    /\ pc' = "return"
    /\ UNCHANGED <<csv_disk, backups, clock, runs, cmd, historial, wb, reservas_agrupadas, grupo_idx,
                   actualizaciones_exitosas, backup_file, exit_status>>
    /\ UnchangedResolver /\ UnchangedCsvLocals

\* create_backup of limpiar_grillas_pisos.py, and the early return
L_CreateBackup ==
    /\ cmd = "limpiar" /\ pc = "start"
    /\ IF ~disk.exists
       THEN /\ ret' = "False"
            /\ pc' = "return"
            /\ UNCHANGED <<backups, backup_file>>
       ELSE /\ backup_file' = BackupName("BACKUP_LIMPIEZA_", clock)
            /\ backups' = CopyTo(backups, BackupName("BACKUP_LIMPIEZA_", clock), disk.sheets)
            /\ pc' = "load"
            /\ UNCHANGED ret
    /\ UNCHANGED <<csv_disk, disk, clock, runs, cmd, historial, wb, reservas_agrupadas, grupo_idx,
                   actualizaciones_exitosas, exit_status>>
    /\ UnchangedCsvLocals /\ UnchangedResolver

L_LoadWorkbook ==
    /\ cmd = "limpiar" /\ pc = "load"
    /\ wb' = disk.sheets
    /\ pc' = "pisos"
    /\ UnchangedFiles /\ UnchangedResolver /\ UnchangedCsvLocals
    /\ UNCHANGED <<reservas_agrupadas, grupo_idx, actualizaciones_exitosas, backup_file,
                   ret, exit_status>>

\* the loop over the floor sheets
L_LimpiarPisos ==
    /\ cmd = "limpiar" /\ pc = "pisos"
    /\ wb' = LimpiarPisos(wb)
    /\ pc' = "ingresos"
    /\ UnchangedFiles /\ UnchangedResolver /\ UnchangedCsvLocals
    /\ UNCHANGED <<reservas_agrupadas, grupo_idx, actualizaciones_exitosas, backup_file,
                   ret, exit_status>>

L_LimpiarIngresos ==
    /\ cmd = "limpiar" /\ pc = "ingresos"
    /\ wb' = LimpiarIngresos(wb)
    /\ pc' = "save"
    /\ UnchangedFiles /\ UnchangedResolver /\ UnchangedCsvLocals
    /\ UNCHANGED <<reservas_agrupadas, grupo_idx, actualizaciones_exitosas, backup_file,
                   ret, exit_status>>

L_Guardar ==
    /\ cmd = "limpiar" /\ pc = "save"
    /\ \E saved \in BOOLEAN :
        IF saved
        THEN disk' = File(wb) /\ pc' = "borrar" /\ UNCHANGED ret
        ELSE UNCHANGED disk /\ pc' = "return" /\ ret' = "False"
    /\ UNCHANGED <<csv_disk, backups, clock, runs, cmd, historial, wb, reservas_agrupadas, grupo_idx,
                   actualizaciones_exitosas, backup_file, exit_status>>
    /\ UnchangedResolver /\ UnchangedCsvLocals

L_BorrarBackups ==
    /\ cmd = "limpiar" /\ pc = "borrar"
    /\ backups' = borrar_backups(backups)
    /\ ret' = "True"
    /\ pc' = "return"
    /\ UNCHANGED <<csv_disk, disk, clock, runs, cmd, historial, wb, reservas_agrupadas, grupo_idx,
                   actualizaciones_exitosas, backup_file, exit_status>>
    /\ UnchangedResolver /\ UnchangedCsvLocals

\* main() drops the value its command returned and the process ends normally;
\* an exception nobody caught ends it with status 1
Main_Exit ==
    /\ pc = "return"
    /\ exit_status' = IF ret = "KeyError" THEN 1 ELSE 0
    /\ historial' = Append(historial, [cmd |-> cmd, ret |-> ret])
    /\ pc' = "exited"
    /\ UNCHANGED <<csv_disk, disk, backups, clock, runs, cmd>>
    /\ UnchangedResolver /\ UnchangedCsvLocals
    /\ UNCHANGED <<wb, reservas_agrupadas, grupo_idx, actualizaciones_exitosas,
                   backup_file, ret>>

\* the operator starts another command, a second later at the earliest
NextRun ==
    /\ pc = "exited"
    /\ runs < MaxRuns
    /\ runs' = runs + 1
    /\ clock' = clock + 1
    /\ cmd' \in {"procesar", "limpiar"}
    /\ pc' = "start"
    /\ wb' = NoSheets
    /\ registros' = <<>>
    /\ habitaciones_unicas' = {}
    /\ total_pax' = 0
    /\ total_habitaciones' = 0
    /\ total_map' = 0
    /\ reservas_agrupadas' = NoGroups
    /\ grupo_idx' = 0
    /\ actualizaciones_exitosas' = 0
    /\ backup_file' = BackupName("", 0)
    /\ ret' = "none"
    /\ exit_status' = -1
    /\ UNCHANGED <<csv_disk, disk, backups, historial>>
    /\ UnchangedResolver

Next ==
    \/ P_CreateBackup
    \/ P_ReadCsv
    \/ P_LoadWorkbook
    \/ P_ImportarIngresos
    \/ P_Distribuir
    \/ P_EscribirResumen
    \/ P_Guardar
    \/ L_CreateBackup
    \/ L_LoadWorkbook
    \/ L_LimpiarPisos
    \/ L_LimpiarIngresos
    \/ L_Guardar
    \/ L_BorrarBackups
    \/ Main_Exit

Spec == Init /\ [][Next]_vars

SpecBordes == InitBordes /\ [][Next]_vars

NextRuns == Next \/ NextRun

SpecRuns == InitRuns /\ [][NextRuns]_vars

\* the resolver called on room_number
Resolver ==
    /\ cmd = "resolver" /\ pc = "call"
    /\ piso' = get_piso_for_room(room_number)
    /\ pc' = "done"
    /\ UNCHANGED <<room_number, cmd, csv_disk, disk, backups, clock, runs, historial, wb,
                   reservas_agrupadas, grupo_idx, actualizaciones_exitosas, backup_file,
                   ret, exit_status>>
    /\ UnchangedCsvLocals

SpecPiso == InitPiso /\ [][Resolver]_vars

(***************************************************************************)
(* C3: the resolver.                                                       *)
(***************************************************************************)
\* the floors and their inclusive ranges
C3_Rango ==
    [f \in {"PISO 1", "PISO 2", "PISO 3"} |->
        CASE f = "PISO 1" -> 101..121
          [] f = "PISO 2" -> 222..242
          [] f = "PISO 3" -> 343..353]

Repetir(c, n) == [i \in 1..n |-> c]

\* r without the blanks before its first and after its last other character
C3_SinBlancos(r) ==
    LET otros == {i \in 1..Len(r) : r[i] # " "}
    IN  IF otros = {} THEN <<>> ELSE SubSeq(r, SetMin(otros), SetMax(otros))

\* t is a decimal numeral of the positive integer n: an optional plus sign
\* and leading zeros are allowed
C3_EsNumeral(t, n) ==
    \E signo \in {<<>>, <<"+">>} :
        LET z == Len(t) - Len(signo) - Len(NatToStr(n))
        IN  z >= 0 /\ t = signo \o Repetir("0", z) \o NatToStr(n)

\* the integers of the range of floor f that r denotes after trimming
C3_Denotados(r, f) == {n \in C3_Rango[f] : C3_EsNumeral(C3_SinBlancos(r), n)}

\* C3: get_piso_for_room(r) is the floor whose inclusive range holds the
\* integer r denotes after trimming, that floor is the only one, and the
\* result is none for every other r (an integer outside the three ranges, or
\* no integer at all)
C3_ResolverRanges ==
    pc = "done" =>
        /\ \A f \in DOMAIN C3_Rango : C3_Denotados(room_number, f) # {} => piso = f
        /\ piso # NoPiso =>
                /\ piso \in DOMAIN C3_Rango
                /\ C3_Denotados(room_number, piso) # {}
                /\ \A g \in DOMAIN C3_Rango \ {piso} : C3_Denotados(room_number, g) = {}

\* a padded room at the upper end of the second floor has been resolved
C3_Witness ==
    /\ pc = "done"
    /\ room_number = <<" ", "2", "4", "2">>
    /\ piso = "PISO 2"

(***************************************************************************)
(* C1: order of the rows of a room.                                        *)
(***************************************************************************)
\* the rows of the CSV for the room, in input order
RowsOfRoom(room) ==
    SelectSeq(csv_disk.rows, LAMBDA row : row["Nro. habitación"] = room)

\* the rows of ws whose column B, as trimmed text, is the room
MatchingRows(ws, room) ==
    {row \in 1..max_row(ws) : Strip(PyStr(Cell(ws, row, 2))) = room}

\* the group the distribution loop handled last
LastGroup == reservas_agrupadas[grupo_idx - 1]

JustDistributed == cmd = "procesar" /\ pc = "distribuir" /\ grupo_idx > 1

\* C1: once a room that has an anchor row has been distributed, its
\* reservations r1..rk stand on the rows anchor, anchor+1, .., anchor+k-1 in
\* the order of the CSV
C1_InputOrder ==
    JustDistributed /\ LastGroup.key[1] \in DOMAIN wb =>
        LET ws == wb[LastGroup.key[1]]
            room == LastGroup.key[2]
            rs == RowsOfRoom(room)
        IN  MatchingRows(ws, room) # {} =>
                \A i \in 1..Len(rs) :
                    LET fila == SetMin(MatchingRows(ws, room)) + i - 1
                    IN  /\ Cell(ws, fila, 3) = Str(rs[i]["Fecha de ingreso"])
                        /\ Cell(ws, fila, 8) = Str(rs[i]["Apellido y nombre"])

\* a room with two guests, first and third in the CSV, has been distributed
C1_Witness ==
    /\ JustDistributed
    /\ LastGroup.key[1] \in DOMAIN wb
    /\ MatchingRows(wb[LastGroup.key[1]], LastGroup.key[2]) # {}
    /\ Len(csv_disk.rows) = 3
    /\ Len(RowsOfRoom(LastGroup.key[2])) = 2
    /\ csv_disk.rows[2]["Nro. habitación"] # LastGroup.key[2]
    /\ Cell(wb[LastGroup.key[1]],
            SetMin(MatchingRows(wb[LastGroup.key[1]], LastGroup.key[2])) + 1, 8)
         = Str(csv_disk.rows[3]["Apellido y nombre"])

(***************************************************************************)
(* C2: the append to the log sheet.                                        *)
(***************************************************************************)
JustAppended == cmd = "procesar" /\ pc = "distribuir" /\ grupo_idx = 1

\* the first row from 2 on whose column A is empty
FirstEmptyRow(ws) ==
    SetMin({row \in 2..(max_row(ws) + 1) : Cell(ws, row, 1) = None})

SinHuecos(ws) == \A x \in DOMAIN ws : x[2] = 1 => x[1] < FirstEmptyRow(ws)

\* the cell holds the field; a field the CSV line lacks is not written and
\* the cell holds what it held
C2_Escrito(antes, ahora, r, c, field) ==
    IF field = CsvNone THEN Cell(ahora, r, c) = Cell(antes, r, c)
    ELSE Cell(ahora, r, c) = Str(field)

AcceptedRows ==
    SelectSeq(csv_disk.rows,
              LAMBDA row : get_piso_for_room(row["Nro. habitación"]) # NoPiso)

\* the field holds a keyword, whatever the case of its letters
HasMealPlan(row) ==
    \E keyword \in MAP_KEYWORDS : Contains(Upper(row["Servicios"]), Upper(keyword))

ImportSucceeded == cmd = "procesar" /\ ret = "True"

\* C4: after a successful import the summary block on disk holds the number
\* of accepted records, the number of distinct rooms among them and the
\* number of accepted records whose services hold a keyword, each counted once
C4_SummaryCounts ==
    ImportSucceeded =>
        LET ws == disk.sheets["PISO 1"]
        IN  /\ Cell(ws, 280, 9) = Num(Len(AcceptedRows))
            /\ Cell(ws, 281, 9) =
                    Num(Cardinality({AcceptedRows[i]["Nro. habitación"] :
                                        i \in 1..Len(AcceptedRows)}))
            /\ Cell(ws, 282, 9) =
                    Num(Cardinality({i \in 1..Len(AcceptedRows) :
                                        HasMealPlan(AcceptedRows[i])}))

\* an import succeeded with two accepted records, one of them with two
\* keywords in its services, and a rejected row with a keyword
C4_Witness ==
    /\ ImportSucceeded
    /\ Len(csv_disk.rows) = 3
    /\ Len(AcceptedRows) = 2
    /\ \E i \in 1..2 : AcceptedRows[i]["Servicios"] = MP_Doble
    /\ \E i \in 1..3 : /\ csv_disk.rows[i]["Nro. habitación"] = H999
                       /\ csv_disk.rows[i]["Servicios"] = MP_Mixta
    /\ Cell(disk.sheets["PISO 1"], 280, 9) = Num(2)
    /\ Cell(disk.sheets["PISO 1"], 282, 9) = Num(1)

(***************************************************************************)
(* C5: a room without an anchor row.                                       *)
(***************************************************************************)
HasAnchor(book, g) ==
    /\ g.key[1] \in DOMAIN book
    /\ MatchingRows(book[g.key[1]], g.key[2]) # {}

\* the distribution loop is about to handle a room that is on no row of its
\* floor sheet
NoAnchorNext ==
    /\ cmd = "procesar" /\ pc = "distribuir"
    /\ grupo_idx <= Len(reservas_agrupadas)
    /\ reservas_agrupadas[grupo_idx].key[1] \in DOMAIN wb
    /\ ~HasAnchor(wb, reservas_agrupadas[grupo_idx])

RECURSIVE PaxWithAnchor(_, _)
PaxWithAnchor(book, groups) ==
    IF groups = <<>> THEN 0
    ELSE (IF HasAnchor(book, Head(groups)) THEN Len(Head(groups).pax_list) ELSE 0)
         + PaxWithAnchor(book, Tail(groups))

\* C5: the step for a room without an anchor row writes no cell and only
\* moves the loop on to the next room; when the loop is over every record
\* of a room with an anchor row has been written and the summary is in the
\* workbook about to be saved
C5_NoAnchorIsSkipped ==
    /\ [][NoAnchorNext =>
            /\ wb' = wb /\ disk' = disk
            /\ pc' = "distribuir" /\ grupo_idx' = grupo_idx + 1
            /\ ret' = ret]_vars
    /\ [](cmd = "procesar" /\ pc = "save" =>
            /\ grupo_idx = Len(reservas_agrupadas) + 1
            /\ actualizaciones_exitosas = PaxWithAnchor(wb, reservas_agrupadas)
            /\ Cell(wb["PISO 1"], 280, 9) = Num(total_pax))

\* an import was saved in which one room had no anchor row and a room after
\* it was written on its anchor row
C5_Witness ==
    /\ ImportSucceeded
    /\ Len(reservas_agrupadas) = 2
    /\ reservas_agrupadas[1].key[1] \in DOMAIN disk.sheets
    /\ ~HasAnchor(disk.sheets, reservas_agrupadas[1])
    /\ HasAnchor(disk.sheets, reservas_agrupadas[2])
    /\ Cell(disk.sheets[reservas_agrupadas[2].key[1]],
            SetMin(MatchingRows(disk.sheets[reservas_agrupadas[2].key[1]],
                                reservas_agrupadas[2].key[2])), 8)
         = Str(reservas_agrupadas[2].pax_list[1].NOMBRE)

(***************************************************************************)
(* C6: rows whose room has no floor.                                       *)
(***************************************************************************)
CsvReadable == csv_disk.exists /\ MAPPING \subseteq csv_disk.fieldnames

RejectedRows ==
    SelectSeq(csv_disk.rows,
              LAMBDA row : get_piso_for_room(row["Nro. habitación"]) = NoPiso)

\* the guest of the CSV row is in some cell of the workbook
InBook(book, row) ==
    \E s \in DOMAIN book : \E x \in DOMAIN book[s] :
        book[s][x] = Str(row["Apellido y nombre"])

\* C6: a row whose room has no floor reaches no sheet and no count, and
\* does not end the run: with a valid row beside it the run goes on to the
\* save, and a saved run has written exactly the valid rows
C6_RejectedRowsExcluded ==
    cmd = "procesar" /\ CsvReadable /\ disk.exists /\ pc \notin {"start", "read_csv"} =>
        /\ Len(registros) = Len(AcceptedRows)
        /\ \A i \in 1..Len(registros) :
                registros[i].NOMBRE = AcceptedRows[i]["Apellido y nombre"]
        /\ \A i \in 1..Len(RejectedRows) :
                ~InBook(wb, RejectedRows[i]) /\ ~InBook(disk.sheets, RejectedRows[i])
        /\ total_pax = Len(AcceptedRows)
        /\ habitaciones_unicas =
                {AcceptedRows[i]["Nro. habitación"] : i \in 1..Len(AcceptedRows)}
        /\ AcceptedRows # <<>> =>
                /\ total_habitaciones = Cardinality(habitaciones_unicas)
                /\ total_map = Cardinality({i \in 1..Len(AcceptedRows) :
                                                HasMealPlan(AcceptedRows[i])})
        /\ AcceptedRows # <<>> => ~(pc = "return" /\ wb = NoSheets)
        /\ ret = "True" =>
                /\ \A i \in 1..Len(AcceptedRows) :
                        \E x \in DOMAIN disk.sheets[PISO_SHEET_NAMES["INGRESOS"]] :
                            /\ x[2] = 7
                            /\ disk.sheets[PISO_SHEET_NAMES["INGRESOS"]][x]
                                 = Str(AcceptedRows[i]["Apellido y nombre"])
                /\ Cell(disk.sheets["PISO 1"], 280, 9) = Num(Len(AcceptedRows))

\* an import was saved whose CSV had room 999, a valid room and a room that
\* is no number
C6_Witness ==
    /\ ImportSucceeded
    /\ Len(csv_disk.rows) = 3
    /\ csv_disk.rows[1]["Nro. habitación"] = H999
    /\ csv_disk.rows[2]["Nro. habitación"] = H105
    /\ csv_disk.rows[3]["Nro. habitación"] = HAlfa
    /\ Cell(disk.sheets["PISO 1"], 280, 9) = Num(1)

(***************************************************************************)
(* C7: importing the same CSV twice.                                       *)
(***************************************************************************)
\* a second import in a row has been saved, after a first one that was saved
SecondImportSaved ==
    /\ ImportSucceeded
    /\ runs >= 2
    /\ pc \in {"return", "exited"}
    /\ historial[runs - 1] = [cmd |-> "procesar", ret |-> "True"]

\* the spreadsheet as the first import left it: the backup of the second
AfterFirstImport == backups[backup_file]

FloorSheets == {"PISO 1", "PISO 2", "PISO 3"}

\* C7, as claimed: the second import leaves the spreadsheet as the first
\* import left it
C7_ImportIdempotent == SecondImportSaved => disk.sheets = AfterFirstImport

\* C7, amended: the second import leaves the floor sheets, summary block
\* included, as the first import left them, and appends the accepted records
\* to the log sheet once more
C7_FloorsIdempotentLogAppended ==
    SecondImportSaved =>
        /\ \A s \in FloorSheets \cap DOMAIN disk.sheets :
                disk.sheets[s] = AfterFirstImport[s]
        /\ LET antes == AfterFirstImport[PISO_SHEET_NAMES["INGRESOS"]]
               ahora == disk.sheets[PISO_SHEET_NAMES["INGRESOS"]]
           IN  /\ ahora # antes
               /\ \A i \in 1..Len(registros) :
                    Cell(ahora, FirstEmptyRow(antes) + i - 1, 7)
                        = Str(registros[i].NOMBRE)

\* the CSV imported twice had two accepted records
C7_Witness == SecondImportSaved /\ Len(registros) = 2

(***************************************************************************)
(* C8: a run that fails leaves the file alone.                             *)
(***************************************************************************)
RequiredSheets == FloorSheets \cup {PISO_SHEET_NAMES["INGRESOS"]}

\* the run started on a missing CSV, a CSV without a required column, a
\* missing spreadsheet or a spreadsheet without a required sheet
PreconditionFailure ==
    \/ ~csv_disk.exists
    \/ ~(MAPPING \subseteq csv_disk.fieldnames)
    \/ ~disk.exists
    \/ ~(RequiredSheets \subseteq DOMAIN disk.sheets)

\* C8: an import that met a precondition failure ends as a failure, and an
\* import that ended as a failure, a failed save included, leaves the file
\* as it was before the run
C8_FailureLeavesFile ==
    cmd = "procesar" /\ pc = "exited" =>
        /\ PreconditionFailure => ret # "True"
        /\ ret # "True" /\ disk.exists /\ backup_file \in DOMAIN backups =>
                disk.sheets = backups[backup_file]

(***************************************************************************)
(* C9: the exit status.                                                    *)
(***************************************************************************)
\* C9: the import command exits with status 0 exactly when the run succeeded
C9_ExitStatusTellsSuccess ==
    cmd = "procesar" /\ pc = "exited" => (exit_status = 0 <=> ret = "True")

(***************************************************************************)
(* C10: the backup comes first.                                            *)
(***************************************************************************)
\* this run has copied the spreadsheet as it is on disk
BackupTaken ==
    /\ backup_file \in DOMAIN backups
    /\ backup_file.ts = clock
    /\ backups[backup_file] = disk.sheets

\* C10: both commands change the workbook in memory and the file on disk
\* only after this run copied the file as it still is; when the file is
\* missing no copy is made and the command returns with nothing loaded and
\* nothing changed
C10_BackupBeforeMutation ==
    /\ [][(wb' # wb \/ disk' # disk) => BackupTaken]_vars
    /\ [][(pc = "start" /\ ~disk.exists) =>
            /\ pc' = "return" /\ ret' = "False"
            /\ wb' = wb /\ disk' = disk /\ backups' = backups]_vars
    /\ [](~disk.exists => wb = NoSheets)

\* the cleaner is about to save a workbook that differs from the file, and
\* the copy of the file is there
C10_Witness ==
    /\ cmd = "limpiar" /\ pc = "save"
    /\ wb # disk.sheets
    /\ BackupTaken


(***************************************************************************)
(* C11: the frame of the clear command.                                    *)
(***************************************************************************)
\* the cells the clear command may change on sheet s
C11_Ventana(s) ==
    IF s \in {"PISO 1", "PISO 2", "PISO 3"} THEN (2..500) \X (3..12)
    ELSE IF s = "Ingresos 23 D MAYO" THEN (2..500) \X (1..14)
    ELSE {}

\* from book antes to book despues: the same sheets, and every cell that is
\* in row 1 or outside the window of its sheet holds what it held
C11_Marco(antes, despues) ==
    /\ DOMAIN despues = DOMAIN antes
    /\ \A s \in DOMAIN antes :
        \A x \in DOMAIN antes[s] \cup DOMAIN despues[s] :
            (x[1] = 1 \/ x \notin C11_Ventana(s) \/
             (s \in {"PISO 1", "PISO 2", "PISO 3"} /\ x[2] = 2))
            => Cell(despues[s], x[1], x[2]) = Cell(antes[s], x[1], x[2])

\* C11: no step of the clear command changes, in the file on disk or in the
\* workbook it cleans in memory, a cell of row 1 or a cell outside the data
\* window of its sheet (C-L rows 2-500 on floor sheets, A-N rows 2-500 on the
\* log sheet); column B of the floor sheets is unchanged.
C11_ClearFrame ==
    [][cmd = "limpiar" =>
        /\ C11_Marco(disk.sheets, disk'.sheets)
        /\ pc \in {"pisos", "ingresos"} => C11_Marco(wb, wb')]_vars

\* the clear command saved a workbook it changed, which still has its cell
\* below row 500, its column beside the log grid and its unnamed sheet
C11_Witness ==
    /\ cmd = "limpiar" /\ pc = "borrar"
    /\ {"PISO 1", "Ingresos 23 D MAYO", "NOTAS"} \subseteq DOMAIN disk.sheets
    /\ disk.sheets # backups[backup_file]
    /\ Cell(backups[backup_file]["PISO 1"], 280, 9) # None
    /\ Cell(disk.sheets["PISO 1"], 280, 9) = None
    /\ Cell(disk.sheets["PISO 1"], 501, 3) = Viejo
    /\ Cell(disk.sheets["PISO 1"], 2, 2) = Num(105)
    /\ Cell(disk.sheets["Ingresos 23 D MAYO"], 2, 15) = Nota
    /\ Cell(disk.sheets["Ingresos 23 D MAYO"], 2, 1) = None

(***************************************************************************)
(* C12: the clear command and the backup files.                            *)
(***************************************************************************)
\* a step of the clear command removes a backup file only when the cleaned
\* workbook has been saved
C12_SoloTrasGuardar ==
    (cmd = "limpiar" /\ \E n \in DOMAIN backups : n \notin DOMAIN backups')
    => (pc = "borrar" /\ disk = File(wb))

\* the removal takes every backup file of an earlier run
C12_BorraLosAnteriores ==
    (cmd = "limpiar" /\ pc = "borrar")
    => \A n \in DOMAIN backups : n # backup_file => n \notin DOMAIN backups'

\* the removal leaves the backup this run took, with the state before the clear
C12_ConservaElPropio ==
    (cmd = "limpiar" /\ pc = "borrar")
    => (backup_file \in DOMAIN backups'
        /\ backups'[backup_file] = backups[backup_file])

\* the clear command deletes backup files only after its save
C12_DeleteOnlyAfterSave == [][C12_SoloTrasGuardar /\ C12_BorraLosAnteriores]_vars

\* C12: the clear command deletes backup files only after the cleaned
\* workbook was saved; a failed save deletes none; a successful run deletes
\* every backup file of earlier runs and keeps the backup it took itself of
\* the state before the clear.
C12_BackupSurvivesClear ==
    [][C12_SoloTrasGuardar /\ C12_BorraLosAnteriores /\ C12_ConservaElPropio]_vars

(***************************************************************************)
(* C13: the summary block.                                                 *)
(***************************************************************************)
\* the summary block of aggregate <<pax, habitaciones, mp>>: cell -> value
C13_Bloque(pax, habitaciones, mp) ==
    (<<278, 8>> :> Str(<<"R", "E", "S", "U", "M", "E", "N", " ", "G", "E", "N", "E", "R", "A", "L">>)) @@
    (<<280, 8>> :> Str(<<"T", "o", "t", "a", "l", " ", "P", "a", "s", "a", "j", "e", "r", "o", "s", ":">>)) @@
    (<<280, 9>> :> Num(pax)) @@
    (<<281, 8>> :> Str(<<"T", "o", "t", "a", "l", " ", "H", "a", "b", "i", "t", "a", "c", "i", "o", "n", "e", "s", ":">>)) @@
    (<<281, 9>> :> Num(habitaciones)) @@
    (<<282, 8>> :> Str(<<"T", "o", "t", "a", "l", " ", "M", "e", "d", "i", "a", " ", "P", "e", "n", "s", "i", "ó", "n", ":">>)) @@
    (<<282, 9>> :> Num(mp))

\* C13: whatever the summary cells of PISO 1 held before, once the summary
\* of aggregate X is written they hold the labels and the values of X, and
\* writing the summary of X again on that sheet changes no cell of it.
C13_SummaryOverwritesIdempotent ==
    (cmd = "procesar" /\ pc = "save") =>
        LET ws == wb["PISO 1"]
            bloque == C13_Bloque(total_pax, total_habitaciones, total_map)
        IN  /\ \A x \in DOMAIN bloque : Cell(ws, x[1], x[2]) = bloque[x]
            /\ EscribirResumen(ws, total_pax, total_habitaciones, total_map) = ws

\* the summary was written over a block of an earlier import that held other
\* values: a number, a text and old labels
C13_Witness ==
    /\ cmd = "procesar" /\ pc = "save"
    /\ Cell(disk.sheets["PISO 1"], 280, 9) = Num(7)
    /\ Cell(disk.sheets["PISO 1"], 281, 9) = Nota
    /\ Cell(disk.sheets["PISO 1"], 278, 8) = Viejo
    /\ Cell(wb["PISO 1"], 280, 9) = Num(total_pax)
    /\ total_pax = 2 /\ total_habitaciones = 1

(***************************************************************************)
(* C14: room identifiers with blanks around them.                          *)
(***************************************************************************)
C14_Grouped == cmd = "procesar" /\ pc \in {"ingresos", "distribuir", "save"}

\* the identifier resolves to the floor of its trimmed form
C14_ResolvesAsTrimmed ==
    C14_Grouped =>
        \A i \in 1..Len(registros) :
            registros[i].PISO = get_piso_for_room(Strip(registros[i].HAB))

\* records whose identifiers have the same trimmed form are in one group
C14_GroupedAsTrimmed ==
    C14_Grouped =>
        \A i, j \in 1..Len(reservas_agrupadas) :
            Strip(reservas_agrupadas[i].key[2]) = Strip(reservas_agrupadas[j].key[2])
            => i = j

\* the unique room count counts trimmed forms
C14_CountedAsTrimmed ==
    C14_Grouped =>
        total_habitaciones =
            Cardinality({Strip(registros[i].HAB) : i \in 1..Len(registros)})

\* the room is found on the first row whose trimmed column B is its trimmed
\* form: its first record stands there once the room has been distributed
C14_FoundAsTrimmed ==
    (JustDistributed /\ LastGroup.key[1] \in DOMAIN wb) =>
        LET ws == wb[LastGroup.key[1]]
            filas == MatchingRows(ws, Strip(LastGroup.key[2]))
        IN  filas # {} =>
                Cell(ws, SetMin(filas), 8) = Str(LastGroup.pax_list[1].NOMBRE)

\* C14: a CSV room identifier with blanks before or after it is handled as
\* its trimmed form: same floor, same group as the trimmed identifier, one
\* unit of the unique room count, and found on the anchor row whose trimmed
\* column B is the trimmed identifier.
C14_PaddedRoomAsTrimmed ==
    /\ C14_ResolvesAsTrimmed
    /\ C14_GroupedAsTrimmed
    /\ C14_CountedAsTrimmed
    /\ C14_FoundAsTrimmed

(***************************************************************************)
(* C15: the frame of the distribution.                                     *)
(***************************************************************************)
\* the first row from row desde on whose trimmed column B is the room, 0
\* when there is none
C15_Anchor(ws, room, desde) ==
    LET filas == {row \in MatchingRows(ws, room) : row >= desde}
    IN  IF filas = {} THEN 0 ELSE SetMin(filas)

\* one step of the distribution loop, with the anchor searched from row
\* desde on: on the sheet of the room only columns C-L of the k rows from
\* the anchor on change, the other sheets do not change, and without an
\* anchor nothing changes
C15_Paso(desde) ==
    (cmd = "procesar" /\ pc = "distribuir" /\ grupo_idx <= Len(reservas_agrupadas)) =>
        LET g == reservas_agrupadas[grupo_idx]
            k == Len(g.pax_list)
        IN  /\ DOMAIN wb' = DOMAIN wb
            /\ \A s \in DOMAIN wb : s # g.key[1] => wb'[s] = wb[s]
            /\ g.key[1] \in DOMAIN wb =>
                LET ws == wb[g.key[1]]
                    despues == wb'[g.key[1]]
                    anchor == C15_Anchor(ws, g.key[2], desde)
                IN  \A x \in DOMAIN ws \cup DOMAIN despues :
                        (anchor = 0 \/ x[1] \notin anchor..(anchor + k - 1)
                         \/ x[2] \notin 3..12 \/ x[1] = 1)
                        => Cell(despues, x[1], x[2]) = Cell(ws, x[1], x[2])

\* the frame with the anchor searched from row 1 on, row 1 left out of it
C15_PasoDesdeFila1 ==
    (cmd = "procesar" /\ pc = "distribuir" /\ grupo_idx <= Len(reservas_agrupadas)) =>
        LET g == reservas_agrupadas[grupo_idx]
            k == Len(g.pax_list)
        IN  /\ DOMAIN wb' = DOMAIN wb
            /\ \A s \in DOMAIN wb : s # g.key[1] => wb'[s] = wb[s]
            /\ g.key[1] \in DOMAIN wb =>
                LET ws == wb[g.key[1]]
                    despues == wb'[g.key[1]]
                    anchor == C15_Anchor(ws, g.key[2], 1)
                IN  \A x \in DOMAIN ws \cup DOMAIN despues :
                        (anchor = 0 \/ x[1] \notin anchor..(anchor + k - 1)
                         \/ x[2] \notin 3..12)
                        => Cell(despues, x[1], x[2]) = Cell(ws, x[1], x[2])

C15_FrameFromRow1 == [][C15_PasoDesdeFila1]_vars

\* C15: distributing a room with k reservations changes only columns C-L of
\* the rows anchor..anchor+k-1 of its floor sheet, the anchor being searched
\* from row 2 downward: row 1 is never the anchor and never changes, column B
\* and the columns outside C-L do not change, and no other row changes.
C15_DistributionFrame == [][C15_Paso(2)]_vars

(***************************************************************************)
(* C16: the columns of a floor-sheet row.                                  *)
(***************************************************************************)
\* the CSV columns behind columns C..L of a floor sheet: check-in, check-out,
\* occupant count, document number, document type, name, age, voucher, meal
\* plan, status
C16_Columnas ==
    <<"Fecha de ingreso", "Fecha de egreso", "Plazas ocupadas", "Nro. doc.",
      "Tipo documento", "Apellido y nombre", "Edad", "Voucher", "Servicios",
      "Estado">>

\* the cell holds the field; a field that is empty or missing leaves the
\* cell with no value or with the empty text
C16_Holds(cell, field) ==
    IF field = CsvNone \/ field = <<>> THEN cell \in {None, Str(<<>>)}
    ELSE cell = Str(field)

\* C16: a floor-sheet row written by the distribution holds in columns C to
\* L check-in, check-out, occupant count, document number (F), document
\* type (G), name, age, voucher, meal plan and status of its reservation,
\* and nothing of what C-L of that row held before, also where a field of
\* the reservation is empty.
C16_FloorRowColumns ==
    (JustDistributed /\ LastGroup.key[1] \in DOMAIN wb) =>
        LET ws == wb[LastGroup.key[1]]
            room == LastGroup.key[2]
            rs == RowsOfRoom(room)
            anchor == C15_Anchor(ws, room, 1)
        IN  anchor # 0 =>
                \A i \in 1..Len(rs) : \A c \in 1..10 :
                    C16_Holds(Cell(ws, anchor + i - 1, c + 2), rs[i][C16_Columnas[c]])

(***************************************************************************)
(* C17: rows of one room and the rows of the rooms below it.               *)
(***************************************************************************)
\* the rooms of the accepted rows, as the CSV spells them
C17_Rooms == {AcceptedRows[i]["Nro. habitación"] : i \in 1..Len(AcceptedRows)}

\* C17: at the end of a successful import every accepted reservation of a
\* room that has an anchor row stands on its floor sheet at the row anchor +
\* its position within the room: the distribution of another room and the
\* summary block have not overwritten it.
C17_NoRowOverwritten ==
    ImportSucceeded =>
        \A room \in C17_Rooms :
            LET floor == get_piso_for_room(room)
                rs == RowsOfRoom(room)
            IN  floor \in DOMAIN disk.sheets =>
                    LET ws == disk.sheets[floor]
                        anchor == C15_Anchor(ws, room, 1)
                    IN  anchor # 0 =>
                            \A i \in 1..Len(rs) :
                                /\ Cell(ws, anchor + i - 1, 3) = Str(rs[i]["Fecha de ingreso"])
                                /\ Cell(ws, anchor + i - 1, 8) = Str(rs[i]["Apellido y nombre"])

====
